---- MODULE Spec2Model ----
(***************************************************************************)
(* Brute-force exact-cover search of community/optimization/               *)
(* exact_cover.ipynb (cell 2, brute_force) as a state machine: one action  *)
(* per statement of the function and of the cell that calls it.            *)
(***************************************************************************)
EXTENDS Integers, Sequences, FiniteSets, TLC

\* Bounds of the model: longest enumerated subset list, largest element,
\* number of times the cell is executed.
MaxLen == 2
MaxElem == 3
MaxRuns == 2

\* The contents of sample.exactcover as printed by cell 1.
SampleList == << {2, 3, 4}, {1, 2}, {3, 4}, {1, 2, 3} >>

VARIABLES
    list_of_subsets,  \* the global read by brute_force
    pc,               \* position in the cell
    has_sol, L, max, i, cur, cur_v,   \* locals of brute_force
    nxt,              \* next value the range(max) iterator yields
    result,           \* the pair bound by "has_sol, cur = brute_force()"
    output,           \* what the cell printed
    checked,          \* candidates handed to the satisfiability check, in order
    steps,            \* statements executed by the current call
    runs,             \* executions of the cell so far
    prev              \* result of the previous execution

vars == << list_of_subsets, pc, has_sol, L, max, i, cur, cur_v, nxt,
           result, output, checked, steps, runs, prev >>

\* Placeholders of names that are not bound yet.
NoVec == << -1 >>
NoResult == << FALSE, NoVec >>

RECURSIVE Pow2(_)
Pow2(n) == IF n = 0 THEN 1 ELSE 2 * Pow2(n - 1)

\* bin(num)[2:] : the binary digits of num, most significant first.
RECURSIVE Bin(_)
Bin(num) ==
    IF num < 2 THEN << IF num = 1 THEN "1" ELSE "0" >>
    ELSE Bin(num \div 2) \o << IF num % 2 = 1 THEN "1" ELSE "0" >>

\* str.zfill: pad with "0" on the left up to width.
RECURSIVE zfill(_, _)
zfill(s, width) == IF Len(s) >= width THEN s ELSE zfill(<< "0" >> \o s, width)

\* np.binary_repr(num, width) for num >= 0:
\*   num == 0 : '0' * (width or 1)
\*   num > 0  : bin(num)[2:].zfill(max(binwidth, width))
binary_repr(num, width) ==
    IF num = 0
    THEN [k \in 1..(IF width = 0 THEN 1 ELSE width) |-> "0"]
    ELSE LET binary == Bin(num)
             outwidth == IF Len(binary) > width THEN Len(binary) ELSE width
         IN zfill(binary, outwidth)

\* int(digit)
IntOfDigit(digit) == IF digit = "1" THEN 1 ELSE 0

bitfield(n, width) ==
    LET r == binary_repr(n, width) IN [k \in 1..Len(r) |-> IntOfDigit(r[k])]

\* The ground set X: the union of all listed subsets.
GroundSet(subsets) == UNION {subsets[k] : k \in 1..Len(subsets)}

\* exact_cover.check_solution_satisfiability(sol, list_of_subsets): every
\* element of X lies in exactly one included subset.
check_solution_satisfiability(sol, subsets) ==
    \A e \in GroundSet(subsets) :
        Cardinality({k \in 1..Len(subsets) : sol[k] = 1 /\ e \in subsets[k]}) = 1

RECURSIVE SeqsUpTo(_, _)
SeqsUpTo(S, n) ==
    IF n = 0 THEN {<< >>}
    ELSE LET shorter == SeqsUpTo(S, n - 1)
         IN shorter \cup {Append(s, x) : s \in {t \in shorter : Len(t) = n - 1}, x \in S}

\* The subset lists the model runs the cell on.
Inputs == SeqsUpTo(SUBSET (1..MaxElem), MaxLen) \cup {SampleList}

Init ==
    /\ list_of_subsets \in Inputs
    /\ pc = "start"
    /\ has_sol = FALSE /\ L = 0 /\ max = 0 /\ i = -1
    /\ cur = NoVec /\ cur_v = FALSE /\ nxt = 0
    /\ result = NoResult /\ output = "" /\ checked = << >>
    /\ steps = 0 /\ runs = 0 /\ prev = NoResult

\* Variant of MaxOf: the bound is one short, so the last candidate is skipped.
MaxOf_short(len) == Pow2(len) - 1

\* max = 2**L
MaxOf(len) == Pow2(len)

\* Variant of Call: the iterator of an earlier call is not restarted.
Call_stale ==
    /\ pc = "start"
    /\ has_sol' = FALSE
    /\ L' = Len(list_of_subsets)
    /\ max' = MaxOf(Len(list_of_subsets))
    /\ i' = -1 /\ cur' = NoVec /\ cur_v' = FALSE
    /\ checked' = << >>
    /\ steps' = 1
    /\ runs' = runs + 1
    /\ pc' = "loop"
    /\ UNCHANGED << list_of_subsets, nxt, result, output, prev >>

\* Variant of Call: range(1, max) instead of range(max).
Call_from1 ==
    /\ pc = "start"
    /\ has_sol' = FALSE
    /\ L' = Len(list_of_subsets)
    /\ max' = MaxOf(Len(list_of_subsets))
    /\ nxt' = 1
    /\ i' = -1 /\ cur' = NoVec /\ cur_v' = FALSE
    /\ checked' = << >>
    /\ steps' = 1
    /\ runs' = runs + 1
    /\ pc' = "loop"
    /\ UNCHANGED << list_of_subsets, result, output, prev >>

\* has_sol = False; L = len(list_of_subsets); max = 2**L; iter(range(max))
Call ==
    /\ pc = "start"
    /\ has_sol' = FALSE
    /\ L' = Len(list_of_subsets)
    /\ max' = MaxOf(Len(list_of_subsets))
    /\ nxt' = 0
    /\ i' = -1 /\ cur' = NoVec /\ cur_v' = FALSE
    /\ checked' = << >>
    /\ steps' = 1
    /\ runs' = runs + 1
    /\ pc' = "loop"
    /\ UNCHANGED << list_of_subsets, result, output, prev >>

\* for i in range(max): the iterator yields the next integer, or is exhausted
\* and the loop falls through to the return (i keeps its last value).
LoopHead ==
    /\ pc = "loop"
    /\ IF nxt < max
       THEN /\ i' = nxt /\ nxt' = nxt + 1 /\ pc' = "bitfield"
       ELSE /\ pc' = "return" /\ UNCHANGED << i, nxt >>
    /\ steps' = steps + 1
    /\ UNCHANGED << list_of_subsets, has_sol, L, max, cur, cur_v,
                    result, output, checked, runs, prev >>

\* cur = bitfield(i, L)
Bitfield ==
    /\ pc = "bitfield"
    /\ cur' = bitfield(i, L)
    /\ pc' = "check"
    /\ steps' = steps + 1
    /\ UNCHANGED << list_of_subsets, has_sol, L, max, i, cur_v, nxt,
                    result, output, checked, runs, prev >>

\* Variant of CheckStep: the check consumes the subsets it found included.
CheckStep_consuming ==
    /\ pc = "check"
    /\ cur_v' = check_solution_satisfiability(cur, list_of_subsets)
    /\ list_of_subsets' = [k \in 1..Len(list_of_subsets) |->
                              IF cur[k] = 1 THEN {} ELSE list_of_subsets[k]]
    /\ checked' = Append(checked, i)
    /\ pc' = "test"
    /\ steps' = steps + 1
    /\ UNCHANGED << has_sol, L, max, i, cur, nxt, result, output, runs, prev >>

\* cur_v = exact_cover.check_solution_satisfiability(cur, list_of_subsets)
CheckStep ==
    /\ pc = "check"
    /\ cur_v' = check_solution_satisfiability(cur, list_of_subsets)
    /\ checked' = Append(checked, i)
    /\ pc' = "test"
    /\ steps' = steps + 1
    /\ UNCHANGED << list_of_subsets, has_sol, L, max, i, cur, nxt,
                    result, output, runs, prev >>

\* Variant of Test: the break is missing.
Test_nobreak ==
    /\ pc = "test"
    /\ pc' = "loop"
    /\ has_sol' = IF cur_v THEN TRUE ELSE has_sol
    /\ steps' = steps + 1
    /\ UNCHANGED << list_of_subsets, L, max, i, cur, cur_v, nxt,
                    result, output, checked, runs, prev >>

\* Variant of Test: the condition is negated.
Test_negated ==
    /\ pc = "test"
    /\ IF ~cur_v
       THEN /\ has_sol' = TRUE /\ pc' = "return"
       ELSE /\ pc' = "loop" /\ UNCHANGED has_sol
    /\ steps' = steps + 1
    /\ UNCHANGED << list_of_subsets, L, max, i, cur, cur_v, nxt,
                    result, output, checked, runs, prev >>

\* if cur_v: has_sol = True; break
Test ==
    /\ pc = "test"
    /\ IF cur_v
       THEN /\ has_sol' = TRUE /\ pc' = "return"
       ELSE /\ pc' = "loop" /\ UNCHANGED has_sol
    /\ steps' = steps + 1
    /\ UNCHANGED << list_of_subsets, L, max, i, cur, cur_v, nxt,
                    result, output, checked, runs, prev >>

\* return has_sol, cur  /  has_sol, cur = brute_force()
Return ==
    /\ pc = "return"
    /\ result' = << has_sol, cur >>
    /\ pc' = "print"
    /\ steps' = steps + 1
    /\ UNCHANGED << list_of_subsets, has_sol, L, max, i, cur, cur_v, nxt,
                    output, checked, runs, prev >>

\* if has_sol: print("Solution is", cur) else: print("No solution is found")
PrintResult ==
    /\ pc = "print"
    /\ output' = IF result[1] THEN "Solution is" ELSE "No solution is found"
    /\ pc' = "done"
    /\ UNCHANGED << list_of_subsets, has_sol, L, max, i, cur, cur_v, nxt,
                    result, checked, steps, runs, prev >>

\* The cell is executed again on the same list_of_subsets.
Rerun ==
    /\ pc = "done"
    /\ runs < MaxRuns
    /\ prev' = result
    /\ pc' = "start"
    /\ UNCHANGED << list_of_subsets, has_sol, L, max, i, cur, cur_v, nxt,
                    result, output, checked, steps, runs >>

Next ==
    \/ Call
    \/ LoopHead
    \/ Bitfield
    \/ CheckStep
    \/ Test
    \/ Return
    \/ PrintResult
    \/ Rerun

Spec == Init /\ [][Next]_vars

----------------------------------------------------------------------------
\* Definitions used to state the properties.

\* The subsets a vector selects (entry k = 1 selects subset k).
Selected(v, subsets) == {k \in 1..Len(subsets) : v[k] = 1}

\* The selected subsets are pairwise disjoint and their union is X.
IsExactCover(v, subsets) ==
    /\ \A j, k \in Selected(v, subsets) : j # k => subsets[j] \cap subsets[k] = {}
    /\ UNION {subsets[k] : k \in Selected(v, subsets)} = GroundSet(subsets)

\* All inclusion vectors over n subsets.
InclusionVectors(n) == [1..n -> {0, 1}]

\* Bit b (0 = least significant) of n.
BitOf(n, b) == (n \div Pow2(b)) % 2

\* The integers whose candidate vector satisfies the cover condition.
SatisfyingInts(subsets) ==
    {j \in 0..(Pow2(Len(subsets)) - 1) :
        check_solution_satisfiability(bitfield(j, Len(subsets)), subsets)}

\* <<0, 1, ..., n-1>>
Iota(n) == [k \in 1..n |-> k - 1]

Returned == pc \in {"print", "done"}

\* C1: on the sample list the search returns has_sol = True with the vector
\* [0,1,1,0], which selects subsets 2 and 3 and exactly covers {1,2,3,4}.
C1_SampleSolution ==
    (list_of_subsets = SampleList /\ Returned) =>
        /\ result = << TRUE, << 0, 1, 1, 0 >> >>
        /\ GroundSet(list_of_subsets) = {1, 2, 3, 4}
        /\ Selected(result[2], list_of_subsets) = {2, 3}
        /\ check_solution_satisfiability(result[2], list_of_subsets)
        /\ IsExactCover(result[2], list_of_subsets)

C1_Witness ==
    list_of_subsets = SampleList /\ pc = "done" /\ result[1] /\ Len(checked) = 7

\* C2: when some inclusion vector satisfies the cover condition, the search
\* returns the candidate of the lowest satisfying integer.
C2_LowestSatisfying ==
    (Returned /\ SatisfyingInts(list_of_subsets) # {}) =>
        \E m \in SatisfyingInts(list_of_subsets) :
            /\ \A j \in SatisfyingInts(list_of_subsets) : m <= j
            /\ result = << TRUE, bitfield(m, Len(list_of_subsets)) >>
            /\ i = m

\* A run in which the lowest satisfying integer is neither the first candidate
\* nor the only satisfying one.
C2_Witness ==
    /\ pc = "done" /\ result[1] /\ i > 0
    /\ Cardinality(SatisfyingInts(list_of_subsets)) > 1

\* C3: failure is reported exactly when no inclusion vector satisfies the
\* cover condition, and only after all of 0 .. 2^L - 1 have been checked.
C3_Exhaustive ==
    Returned =>
        /\ (result[1] = FALSE) <=>
              (\A v \in InclusionVectors(Len(list_of_subsets)) :
                   ~check_solution_satisfiability(v, list_of_subsets))
        /\ (result[1] = FALSE) => checked = Iota(Pow2(Len(list_of_subsets)))
        /\ (pc = "done") => ((result[1] = FALSE) <=> (output = "No solution is found"))

C3_Witness ==
    /\ pc = "done" /\ result[1] = FALSE /\ output = "No solution is found"
    /\ Len(list_of_subsets) = MaxLen /\ Len(checked) = Pow2(MaxLen)

\* C4: a checked vector is declared a solution exactly when every element of
\* X lies in exactly one included subset, i.e. when the included subsets are
\* pairwise disjoint with union X; a returned solution is such a vector.
C4_SolutionIsExactCover ==
    /\ (pc = "test") =>
          /\ cur_v <=> (\A e \in GroundSet(list_of_subsets) :
                 Cardinality({k \in Selected(cur, list_of_subsets) :
                                 e \in list_of_subsets[k]}) = 1)
          /\ cur_v <=> IsExactCover(cur, list_of_subsets)
    /\ (Returned /\ result[1]) => IsExactCover(result[2], list_of_subsets)

\* A solution that selects at least two subsets and leaves one out.
C4_Witness ==
    /\ pc = "done" /\ result[1]
    /\ Cardinality(Selected(result[2], list_of_subsets)) >= 2
    /\ Cardinality(Selected(result[2], list_of_subsets)) < Len(list_of_subsets)

\* C5 (as stated): for an empty subset list the search ends with "no solution".
C5_EmptyListNoSolution ==
    (Len(list_of_subsets) = 0 /\ pc = "done") =>
        (result[1] = FALSE /\ output = "No solution is found")

\* C5 (amended): for an empty subset list the search ends after checking the
\* single candidate 0 and reports a solution: has_sol = True and the cell
\* prints "Solution is ...".
C5_EmptyListSolved ==
    (Len(list_of_subsets) = 0 /\ Returned) =>
        /\ result[1] = TRUE
        /\ checked = << 0 >>
        /\ (pc = "done") => (output = "Solution is")

C5_Witness ==
    Len(list_of_subsets) = 0 /\ pc = "done" /\ output = "Solution is" /\ steps = 6

\* C6: a second execution on the same subset list returns the same pair
\* (has_sol, cur) as the execution before it.
C6_Deterministic ==
    (Returned /\ runs >= 2) => result = prev

C6_Witness ==
    /\ pc = "done" /\ runs = 2 /\ prev = result
    /\ result[1] /\ i > 0 /\ i < max - 1

C9_OrderedBoundedSearch ==
    /\ checked = Iota(Len(checked))
    /\ Len(checked) <= Pow2(Len(list_of_subsets))
    /\ \A k \in 1..(Len(checked) - 1) :
           ~check_solution_satisfiability(
                bitfield(checked[k], Len(list_of_subsets)), list_of_subsets)
    /\ steps <= 4 * Pow2(Len(list_of_subsets)) + 3
    /\ (pc # "done") => ENABLED Next

\* The loop was left by the break, after more than one check and before the
\* candidates were exhausted.
C9_Witness ==
    /\ pc = "done" /\ result[1]
    /\ Len(checked) > 1 /\ Len(checked) < Pow2(Len(list_of_subsets))

\* C10: for every L >= 0 and i in [0, 2^L) the candidate bitfield(i, L) has
\* exactly L entries, each 0 or 1, entry k (counted from 0) being bit L-1-k of
\* i; distinct integers give distinct candidates.
C10_BitfieldShape ==
    (pc = "check") =>
        /\ Len(cur) = L
        /\ \A k \in 1..L : cur[k] \in {0, 1} /\ cur[k] = BitOf(i, L - k)
        /\ \A j \in 0..(max - 1) : j # i => bitfield(j, L) # cur

====
